---- MODULE Spec2Model ----
(***************************************************************************)
(* Model of app.py: a Flask application over a PostgreSQL `account` table  *)
(* and its `depositor` join table, a psycopg connection pool and a         *)
(* Flask-Limiter rate limiter.                                             *)
(*                                                                         *)
(* Strings are sequences of one-character strings, so that the parsing     *)
(* done by decimal.Decimal is computed character by character.             *)
(***************************************************************************)
EXTENDS Integers, Sequences, FiniteSets, TLC

(***************************************************************************)
(* Bounds                                                                  *)
(***************************************************************************)
MaxLen == 3          \* longest form value enumerated for the validation
MaxArrivals == 2     \* requests received in the database specification

Digits   == {"0", "5"}
Alphabet == Digits \cup {"-", "+", ".", "e", "i", "n", "f", "a"}

Strs(n) == UNION {[1..k -> Alphabet] : k \in 0..n}

(***************************************************************************)
(* decimal.Decimal(str)                                                    *)
(***************************************************************************)
AllDigits(s) == \A i \in 1..Len(s) : s[i] \in Digits

DigitVal(c) == IF c = "5" THEN 5 ELSE 0

RECURSIVE ToInt(_)
ToInt(s) == IF s = <<>> THEN 0
            ELSE 10 * ToInt(SubSeq(s, 1, Len(s) - 1)) + DigitVal(s[Len(s)])

\* index of the first occurrence of c in s, 0 when there is none
IndexOf(s, c) == IF \E i \in 1..Len(s) : s[i] = c
                 THEN CHOOSE i \in 1..Len(s) :
                        s[i] = c /\ \A j \in 1..(i - 1) : s[j] # c
                 ELSE 0

Dec(k, sg, co, ex) == [kind |-> k, sign |-> sg, coeff |-> co, exp |-> ex]

InvalidSyntax == Dec("invalid", 0, 0, 0)

\* the value of Decimal(s), or InvalidSyntax where Decimal raises
\* InvalidOperation (ConversionSyntax)
Decimal(s) ==
  LET signed == Len(s) > 0 /\ s[1] \in {"-", "+"}
      sign   == IF signed /\ s[1] = "-" THEN 1 ELSE 0
      body   == IF signed THEN Tail(s) ELSE s
      isInf  == body \in {<<"i", "n", "f">>,
                          <<"i", "n", "f", "i", "n", "i", "t", "y">>}
      nanAt  == IF Len(body) > 0 /\ body[1] = "s" THEN 2 ELSE 1
      isNaN  == /\ Len(body) >= nanAt + 2
                /\ SubSeq(body, nanAt, nanAt + 2) = <<"n", "a", "n">>
                /\ AllDigits(SubSeq(body, nanAt + 3, Len(body)))
      epos   == IndexOf(body, "e")
      mant   == IF epos = 0 THEN body ELSE SubSeq(body, 1, epos - 1)
      expo   == IF epos = 0 THEN <<>> ELSE SubSeq(body, epos + 1, Len(body))
      dpos   == IndexOf(mant, ".")
      int    == IF dpos = 0 THEN mant ELSE SubSeq(mant, 1, dpos - 1)
      frac   == IF dpos = 0 THEN <<>> ELSE SubSeq(mant, dpos + 1, Len(mant))
      esign  == Len(expo) > 0 /\ expo[1] \in {"-", "+"}
      edig   == IF esign THEN Tail(expo) ELSE expo
      eval   == IF esign /\ expo[1] = "-" THEN 0 - ToInt(edig) ELSE ToInt(edig)
      isNum  == /\ AllDigits(int)
                /\ AllDigits(frac)
                /\ Len(int) + Len(frac) > 0
                /\ epos # 0 => (Len(edig) > 0 /\ AllDigits(edig))
  IN  IF isInf THEN Dec("inf", sign, 0, 0)
      ELSE IF isNaN
        THEN Dec("nan", sign, ToInt(SubSeq(body, nanAt + 3, Len(body))), 0)
      ELSE IF isNum
        THEN Dec("finite", sign, ToInt(int \o frac), eval - Len(frac))
      ELSE InvalidSyntax

is_decimal(s) == Decimal(s) # InvalidSyntax

\* the outcome of `d < 0`: an ordering comparison of a NaN signals
\* InvalidOperation, which the default context traps
LtZero(d) == CASE d.kind = "nan"    -> "InvalidOperation"
               [] d.kind = "inf"    -> IF d.sign = 1 THEN "true" ELSE "false"
               [] OTHER             -> IF d.sign = 1 /\ d.coeff # 0
                                       THEN "true" ELSE "false"

\* request.form has no "balance" key
NoField == <<"?">>

\* the checks without the one of line 129
ValidateBalance_NoSignCheck(balance) ==
  IF balance = NoField THEN "BadRequestKeyError"
  ELSE IF balance = <<>> THEN "ValueError"
  ELSE IF ~is_decimal(balance) THEN "ValueError"
  ELSE IF LtZero(Decimal(balance)) = "InvalidOperation" THEN "InvalidOperation"
  ELSE "none"

\* lines 121-130: the exception the checks raise, "none" when they pass
ValidateBalance(balance) ==
  IF balance = NoField THEN "BadRequestKeyError"
  ELSE IF balance = <<>> THEN "ValueError"
  ELSE IF ~is_decimal(balance) THEN "ValueError"
  ELSE IF LtZero(Decimal(balance)) = "InvalidOperation" THEN "InvalidOperation"
  ELSE IF LtZero(Decimal(balance)) = "true" THEN "ValueError"
  ELSE "none"


\* the numeric value PostgreSQL stores for an accepted form value: numeric
\* has no negative zero
ToNumeric(d) == IF d.kind = "finite" /\ d.coeff = 0
                THEN Dec("finite", 0, 0, d.exp) ELSE d

(***************************************************************************)
(* Configuration                                                           *)
(***************************************************************************)
max_size  == 10          \* ConnectionPool(max_size=10)
DayLimit  == 200         \* default_limits "200 per day"
HourLimit == 50          \* default_limits "50 per hour"
SecLimit  == 1           \* @limiter.limit("1 per second")

Endpoints == {"account_index", "account_update_view", "account_update_save",
              "account_delete", "ping"}
Windows   == {"second", "hour", "day"}

\* the windows in which the requests a client sends to an endpoint are
\* counted
Counted(e) == IF e \in {"account_index", "account_update_view"}
              THEN Windows ELSE {"hour", "day"}

Amount(l) == CASE l = "second" -> SecLimit
               [] l = "hour"   -> HourLimit
               [] l = "day"    -> DayLimit

\* @limiter.exempt
Exempt(e) == e = "ping"

\* every endpoint that is not exempt has the default limits only
Limits_DefaultsOnly(e) == IF Exempt(e) THEN {} ELSE {"hour", "day"}

\* The limits Flask-Limiter evaluates for an endpoint: a limit given with
\* @limiter.limit replaces the default limits (override_defaults=True), an
\* exempt endpoint has none, every other endpoint has the default limits.
Limits(e) == IF Exempt(e) THEN {}
             ELSE IF e \in {"account_index", "account_update_view"}
               THEN {"second"}
             ELSE {"hour", "day"}

(***************************************************************************)
(* Inputs                                                                  *)
(***************************************************************************)
AccountNumbers == {1, 2}                 \* rows of the account table
Targets        == AccountNumbers \cup {3} \* <account_number> of a route
InitDepositor  == {<<1, 1>>, <<2, 1>>, <<1, 2>>}  \* <<customer, account>>
InitAccount    ==
  [a \in AccountNumbers |->
     [branch_name |-> "Downtown", balance |-> Dec("finite", 0, 50, 0)]]

FormBalances == {NoField, <<>>, <<"a">>, <<"-", "5">>, <<"5">>,
                 <<"i", "n", "f">>, <<"n", "a", "n">>}

VARIABLES
  account,     \* committed account rows: account_number -> row
  depositor,   \* committed depositor rows
  pc,          \* request -> position in its handler
  op,          \* request -> endpoint
  acct,        \* request -> <account_number> route parameter
  bal,         \* request -> form field "balance"
  err,         \* request -> exception raised inside pool.connection()
  resp,        \* request -> response
  tdep,        \* request -> depositor rows deleted by its open transaction
  tacc,        \* request -> account rows deleted by its open transaction
  checkedOut,  \* connections out of the pool
  others,      \* connections held by listing requests of other clients
  hits,        \* limiter storage: endpoint -> window -> counter
  sent,        \* endpoint -> window -> requests received in that window
  focus,       \* endpoint the client's session is aimed at, or "any"
  budget       \* requests the client still sends, Unbounded for no limit

vars == <<account, depositor, pc, op, acct, bal, err, resp, tdep, tacc,
          checkedOut, others, hits, sent, focus, budget>>

db   == <<account, depositor>>
txs  == <<tdep, tacc>>
pool == <<checkedOut, others>>
lim  == <<hits, sent>>
env  == <<focus, budget>>

Unbounded == 0 - 1
Slots     == {1, 2}      \* requests in flight at once

Reqs == DOMAIN pc

Min(a, b) == IF a < b THEN a ELSE b

InitWith(reqs, foci, n) ==
  /\ account = InitAccount
  /\ depositor = InitDepositor
  /\ pc = [r \in reqs |-> "new"]
  /\ op = [r \in reqs |-> "none"]
  /\ acct = [r \in reqs |-> 0]
  /\ bal = [r \in reqs |-> <<>>]
  /\ err = [r \in reqs |-> "none"]
  /\ resp = [r \in reqs |-> "none"]
  /\ tdep = [r \in reqs |-> {}]
  /\ tacc = [r \in reqs |-> {}]
  /\ checkedOut = 0
  /\ others = 0
  /\ hits = [e \in Endpoints |-> [l \in Windows |-> 0]]
  /\ sent = [e \in Endpoints |-> [l \in Counted(e) |-> 0]]
  /\ focus \in foci
  /\ budget = n

Init == InitWith(Slots, {"any"}, MaxArrivals)

(***************************************************************************)
(* Rate limiter and routing                                                *)
(***************************************************************************)
\* the request ends: its inputs are dropped, its response kept
Done(r, response) ==
  /\ pc' = [pc EXCEPT ![r] = "done"]
  /\ resp' = [resp EXCEPT ![r] = response]
  /\ acct' = [acct EXCEPT ![r] = 0]
  /\ bal' = [bal EXCEPT ![r] = <<>>]
  /\ err' = [err EXCEPT ![r] = "none"]

FirstStep(e) == CASE e = "ping" -> "ping"
                  [] e = "account_update_save" -> "validate"
                  [] OTHER -> "getconn"

\* A request arrives in a free slot and Flask-Limiter's before_request hook
\* hits every limit of the endpoint; a counter stays at its limit once it has
\* reached it.
limiter_check(r, e, a, b) ==
  /\ pc[r] \in {"new", "done"}
  /\ budget # 0
  /\ budget' = IF budget = Unbounded THEN budget ELSE budget - 1
  /\ focus \in {"any", e} \/ Exempt(e)
  /\ op' = [op EXCEPT ![r] = e]
  /\ hits' = [hits EXCEPT ![e] =
                [l \in Windows |-> IF l \in Limits(e)
                                   THEN Min(hits[e][l] + 1, Amount(l))
                                   ELSE hits[e][l]]]
  /\ sent' = IF Exempt(e) THEN sent
             ELSE [sent EXCEPT ![e] =
                     [l \in Counted(e) |-> Min(sent[e][l] + 1, Amount(l))]]
  /\ IF \E l \in Limits(e) : hits[e][l] >= Amount(l)
       THEN Done(r, "RateLimitExceeded")
       ELSE /\ pc' = [pc EXCEPT ![r] = FirstStep(e)]
            /\ acct' = [acct EXCEPT ![r] = a]
            /\ bal' = [bal EXCEPT ![r] = b]
            /\ resp' = [resp EXCEPT ![r] = "none"]
            /\ UNCHANGED err
  /\ UNCHANGED <<db, txs, pool, focus>>

\* the window of a limit ends
expire(e, l) ==
  /\ hits[e][l] > 0 \/ (l \in Counted(e) /\ sent[e][l] > 0)
  /\ hits' = [hits EXCEPT ![e][l] = 0]
  /\ sent' = IF l \in Counted(e) THEN [sent EXCEPT ![e][l] = 0] ELSE sent
  /\ UNCHANGED <<db, txs, pool, pc, op, acct, bal, err, resp, env>>

ping(r) ==
  /\ pc[r] = "ping"
  /\ Done(r, "pong")
  /\ UNCHANGED <<db, txs, pool, lim, op, env>>

(***************************************************************************)
(* POST /accounts/<account_number>/update: the checks of the form field    *)
(***************************************************************************)
validate(r) ==
  /\ pc[r] = "validate"
  /\ IF ValidateBalance(bal[r]) = "none"
       THEN /\ pc' = [pc EXCEPT ![r] = "getconn"]
            /\ UNCHANGED <<acct, bal, err, resp>>
       ELSE Done(r, ValidateBalance(bal[r]))
  /\ UNCHANGED <<db, txs, pool, lim, op, env>>

(***************************************************************************)
(* Connection pool: `with pool.connection() as conn`                       *)
(***************************************************************************)
FirstStatement(e) == CASE e = "account_update_save" -> "update"
                       [] e = "account_delete" -> "delete_depositor"
                       [] OTHER -> "select"

\* entering the context: a connection is handed out while fewer than
\* max_size are out
pool_getconn(r) ==
  /\ pc[r] = "getconn"
  /\ checkedOut < max_size
  /\ checkedOut' = checkedOut + 1
  /\ pc' = [pc EXCEPT ![r] = FirstStatement(op[r])]
  /\ UNCHANGED <<db, txs, lim, others, op, acct, bal, err, resp, env>>

\* the wait starts again instead of raising PoolTimeout
pool_timeout_Retry(r) ==
  /\ pc[r] = "getconn"
  /\ UNCHANGED vars

\* no connection within timeout=5: PoolTimeout leaves the handler
pool_timeout(r) ==
  /\ pc[r] = "getconn"
  /\ Done(r, "PoolTimeout")
  /\ UNCHANGED <<db, txs, pool, lim, op, env>>

Response(e) == IF e \in {"account_index", "account_update_view"}
               THEN "page" ELSE "redirect"

\* the connection goes back only when the block ends normally
pool_putconn_LeakOnError(r) ==
  /\ pc[r] = "putconn"
  /\ checkedOut' = IF err[r] = "none" THEN checkedOut - 1 ELSE checkedOut
  /\ Done(r, IF err[r] = "none" THEN Response(op[r]) ELSE err[r])
  /\ UNCHANGED <<db, txs, lim, others, op, env>>

\* leaving the context, normally or by an exception: the connection goes
\* back, then the handler returns its response or the exception leaves it
pool_putconn(r) ==
  /\ pc[r] = "putconn"
  /\ checkedOut' = checkedOut - 1
  /\ Done(r, IF err[r] = "none" THEN Response(op[r]) ELSE err[r])
  /\ UNCHANGED <<db, txs, lim, others, op, env>>

\* a listing request of another client takes a connection
other_getconn ==
  /\ checkedOut < max_size
  /\ checkedOut' = checkedOut + 1
  /\ others' = others + 1
  /\ UNCHANGED <<db, txs, lim, pc, op, acct, bal, err, resp, env>>

\* ... and gives it back
other_putconn ==
  /\ others > 0
  /\ checkedOut' = checkedOut - 1
  /\ others' = others - 1
  /\ UNCHANGED <<db, txs, lim, pc, op, acct, bal, err, resp, env>>

(***************************************************************************)
(* Statements.  The tables hold the committed rows.  A statement of an     *)
(* open transaction keeps the rows it deletes locked until the transaction *)
(* ends; a statement that needs a row locked by another transaction waits. *)
(* Any statement can fail (DatabaseError).                                 *)
(***************************************************************************)
RowsOf(rows, a) == {d \in rows : d[2] = a}

DepositorLocked(r, rows) == \E q \in Reqs \ {r} : rows \cap tdep[q] # {}
AccountLocked(r, a)      == \E q \in Reqs \ {r} : a \in tacc[q]

Without(f, S) == [a \in DOMAIN f \ S |-> f[a]]

\* the statement of r ends with exception e and r goes to position p
Raise(r, e, p) ==
  /\ pc' = [pc EXCEPT ![r] = p]
  /\ err' = [err EXCEPT ![r] = e]

\* account_index, account_update_view: SELECT ... FROM account
select(r) ==
  /\ pc[r] = "select"
  /\ \/ Raise(r, "none", "putconn")
     \/ Raise(r, "DatabaseError", "putconn")
  /\ UNCHANGED <<db, txs, pool, lim, op, acct, bal, resp, env>>

\* the UPDATE without its WHERE clause
update_NoWhere(r) ==
  /\ pc[r] = "update"
  /\ \/ /\ \A a \in DOMAIN account : ~AccountLocked(r, a)
        /\ account' = [a \in DOMAIN account |->
                         [account[a] EXCEPT !.balance =
                                              ToNumeric(Decimal(bal[r]))]]
        /\ Raise(r, "none", "putconn")
     \/ /\ Raise(r, "DatabaseError", "putconn")
        /\ UNCHANGED account
  /\ UNCHANGED <<depositor, txs, pool, lim, op, acct, bal, resp, env>>

\* account_update_save: UPDATE account SET balance WHERE account_number,
\* committed at once (autocommit)
update(r) ==
  /\ pc[r] = "update"
  /\ \/ /\ ~AccountLocked(r, acct[r])
        /\ account' = IF acct[r] \in DOMAIN account
                      THEN [account EXCEPT ![acct[r]].balance =
                                             ToNumeric(Decimal(bal[r]))]
                      ELSE account
        /\ Raise(r, "none", "putconn")
     \/ /\ Raise(r, "DatabaseError", "putconn")
        /\ UNCHANGED account
  /\ UNCHANGED <<depositor, txs, pool, lim, op, acct, bal, resp, env>>

\* the first DELETE outside conn.transaction(): committed at once
delete_depositor_Autocommit(r) ==
  /\ pc[r] = "delete_depositor"
  /\ \/ /\ ~DepositorLocked(r, RowsOf(depositor, acct[r]))
        /\ depositor' = depositor \ RowsOf(depositor, acct[r])
        /\ Raise(r, "none", "delete_account")
     \/ /\ Raise(r, "DatabaseError", "rollback")
        /\ UNCHANGED depositor
  /\ UNCHANGED <<account, txs, pool, lim, op, acct, bal, resp, env>>

\* account_delete, inside conn.transaction():
\* DELETE FROM depositor WHERE account_number
delete_depositor(r) ==
  /\ pc[r] = "delete_depositor"
  /\ \/ /\ ~DepositorLocked(r, RowsOf(depositor, acct[r]))
        /\ tdep' = [tdep EXCEPT ![r] = RowsOf(depositor, acct[r])]
        /\ Raise(r, "none", "delete_account")
     \/ /\ Raise(r, "DatabaseError", "rollback")
        /\ UNCHANGED tdep
  /\ UNCHANGED <<db, tacc, pool, lim, op, acct, bal, resp, env>>

\* the second DELETE without its WHERE clause
delete_account_NoWhere(r) ==
  /\ pc[r] = "delete_account"
  /\ \/ /\ \A a \in DOMAIN account : ~AccountLocked(r, a)
        /\ tacc' = [tacc EXCEPT ![r] = DOMAIN account]
        /\ Raise(r, "none", "commit")
     \/ /\ Raise(r, "DatabaseError", "rollback")
        /\ UNCHANGED tacc
  /\ UNCHANGED <<db, tdep, pool, lim, op, acct, bal, resp, env>>

\* the second DELETE followed by a check that a row was deleted
delete_account_Strict(r) ==
  /\ pc[r] = "delete_account"
  /\ \/ /\ ~AccountLocked(r, acct[r])
        /\ tacc' = [tacc EXCEPT ![r] = {acct[r]} \cap DOMAIN account]
        /\ IF acct[r] \in DOMAIN account
             THEN Raise(r, "none", "commit")
             ELSE Raise(r, "NotFound", "rollback")
     \/ /\ Raise(r, "DatabaseError", "rollback")
        /\ UNCHANGED tacc
  /\ UNCHANGED <<db, tdep, pool, lim, op, acct, bal, resp, env>>

\* DELETE FROM account WHERE account_number
delete_account(r) ==
  /\ pc[r] = "delete_account"
  /\ \/ /\ ~AccountLocked(r, acct[r])
        /\ tacc' = [tacc EXCEPT ![r] = {acct[r]} \cap DOMAIN account]
        /\ Raise(r, "none", "commit")
     \/ /\ Raise(r, "DatabaseError", "rollback")
        /\ UNCHANGED tacc
  /\ UNCHANGED <<db, tdep, pool, lim, op, acct, bal, resp, env>>

EndTransaction(r) ==
  /\ tdep' = [tdep EXCEPT ![r] = {}]
  /\ tacc' = [tacc EXCEPT ![r] = {}]

\* the transaction block ends normally: COMMIT
commit(r) ==
  /\ pc[r] = "commit"
  /\ \/ /\ depositor' = depositor \ tdep[r]
        /\ account' = Without(account, tacc[r])
        /\ Raise(r, "none", "putconn")
     \/ /\ Raise(r, "DatabaseError", "putconn")
        /\ UNCHANGED db
  /\ EndTransaction(r)
  /\ UNCHANGED <<pool, lim, op, acct, bal, resp, env>>

\* the transaction block ends by an exception: ROLLBACK
rollback(r) ==
  /\ pc[r] = "rollback"
  /\ EndTransaction(r)
  /\ pc' = [pc EXCEPT ![r] = "putconn"]
  /\ UNCHANGED <<db, pool, lim, op, acct, bal, err, resp, env>>

(***************************************************************************)
(* Specifications                                                          *)
(***************************************************************************)
Arrivals(r) ==
  \/ \E e \in {"account_index", "ping"} : limiter_check(r, e, 0, <<>>)
  \/ \E a \in Targets :
       \/ limiter_check(r, "account_update_view", a, <<>>)
       \/ limiter_check(r, "account_delete", a, <<>>)
       \/ \E b \in FormBalances : limiter_check(r, "account_update_save", a, b)

Handlers(r) ==
  \/ ping(r)
  \/ validate(r)
  \/ pool_getconn(r)
  \/ pool_timeout(r)
  \/ select(r)
  \/ update(r)
  \/ delete_depositor(r)
  \/ delete_account(r)
  \/ commit(r)
  \/ rollback(r)
  \/ pool_putconn(r)

\* The database specification: MaxArrivals requests of any kind, at most
\* two at a time, all within the same hour.
Next ==
  \/ \E r \in Reqs : Arrivals(r) \/ Handlers(r)
  \/ \E e \in Endpoints : expire(e, "second")

Spec == Init /\ [][Next]_vars

\* The validation specification: one update request for every form value
\* of at most MaxLen characters, at the checks of its handler.
InitVal ==
  /\ account = InitAccount
  /\ depositor = InitDepositor
  /\ pc = [r \in {1} |-> "validate"]
  /\ op = [r \in {1} |-> "account_update_save"]
  /\ acct = [r \in {1} |-> 1]
  /\ bal \in [{1} -> Strs(MaxLen) \cup {NoField}]
  /\ err = [r \in {1} |-> "none"]
  /\ resp = [r \in {1} |-> "none"]
  /\ tdep = [r \in {1} |-> {}]
  /\ tacc = [r \in {1} |-> {}]
  /\ checkedOut = 0
  /\ others = 0
  /\ hits = [e \in Endpoints |-> [l \in Windows |-> 0]]
  /\ sent = [e \in Endpoints |-> [l \in Counted(e) |-> 0]]
  /\ focus = "any"
  /\ budget = 0

NextVal == \E r \in Reqs : validate(r)

SpecVal == InitVal /\ [][NextVal]_vars

\* The limiter specification: one client sends requests without end, one at
\* a time and to one endpoint (and /ping); windows end at any time.
LimitArrivals(r) ==
  \/ \E e \in {"account_index", "ping"} : limiter_check(r, e, 0, <<>>)
  \/ limiter_check(r, "account_update_view", 1, <<>>)
  \/ limiter_check(r, "account_delete", 1, <<>>)
  \/ limiter_check(r, "account_update_save", 1, <<"5">>)

InitLimit == InitWith({1}, Endpoints \ {"ping"}, Unbounded)

NextLimit ==
  \/ \E r \in Reqs : LimitArrivals(r) \/ Handlers(r)
  \/ \E e \in Endpoints, l \in Windows : expire(e, l)

SpecLimit == InitLimit /\ [][NextLimit]_vars

\* The pool specification: MaxArrivals requests of one client, at most two
\* at a time, while listing requests of other clients take and return
\* connections.
PoolArrivals(r) ==
  \/ \E e \in {"account_index", "ping"} : limiter_check(r, e, 0, <<>>)
  \/ limiter_check(r, "account_delete", 1, <<>>)
  \/ limiter_check(r, "account_update_save", 1, <<"5">>)

NextPool ==
  \/ \E r \in Reqs : PoolArrivals(r) \/ Handlers(r)
  \/ other_getconn
  \/ other_putconn

SpecPool == Init /\ [][NextPool]_vars

\* a waiting request gets a connection or its timeout fires
FairSpecPool ==
  SpecPool /\ \A r \in Slots : WF_vars(pool_getconn(r) \/ pool_timeout(r))


(***************************************************************************)
(* The specification's notion of a valid balance (4.3): the string is an   *)
(* exact decimal number, [sign] digits [. digits] [e [sign] digits] with   *)
(* at least one digit before the exponent, and its value is >= 0.          *)
(***************************************************************************)
IsExactDecimal(s) ==
  \E i \in 0..1, m \in 0..Len(s) :
    /\ i <= m
    /\ i = 1 => s[1] \in {"+", "-"}
    /\ \E j \in (i + 1)..m : s[j] \in Digits
    /\ \A j \in (i + 1)..m : s[j] \in Digits \cup {"."}
    /\ Cardinality({j \in (i + 1)..m : s[j] = "."}) <= 1
    /\ \/ m = Len(s)
       \/ /\ s[m + 1] = "e"
          /\ \E k \in (m + 1)..(m + 2) :
               /\ k < Len(s)
               /\ k = m + 2 => s[k] \in {"+", "-"}
               /\ \A j \in (k + 1)..Len(s) : s[j] \in Digits

\* the digits before the exponent are all zero
IsZero(s) ==
  \A j \in 1..Len(s) :
    (s[j] \in Digits /\ \A k \in 1..j : s[k] # "e") => s[j] = "0"

IsValidBalance(s) ==
  /\ IsExactDecimal(s)
  /\ s[1] = "-" => IsZero(s)

\* r passes from position p to position q
Moves(r, p, q) == pc[r] = p /\ pc'[r] = q

\* the statement or COMMIT r is at ends without exception
Succeeds(r, p, q) == Moves(r, p, q) /\ err'[r] = "none"

\* C4: the checks of the update handler accept a form value if and only if
\* it is an exact decimal number with value >= 0.
C4_ValidationExact ==
  [][\A r \in Reqs :
       (pc[r] = "validate" /\ pc'[r] # "validate")
         => (pc'[r] = "getconn" <=> IsValidBalance(bal[r]))]_vars

\* C3: an update request whose balance is empty, non-numeric or negative
\* (that is, not a valid balance) never gets past the checks: it takes no
\* connection and runs no statement, and the step that rejects it leaves the
\* tables and the pool as they are.
C3_InvalidRejectedBeforePool ==
  /\ [](\A r \in Reqs :
          (op[r] = "account_update_save"
             /\ pc[r] \in {"getconn", "update", "putconn"})
            => IsValidBalance(bal[r]))
  /\ [][\A r \in Reqs : Moves(r, "validate", "done")
          => (UNCHANGED <<db, txs, pool>>
                /\ resp'[r] \in {"ValueError", "InvalidOperation",
                                 "BadRequestKeyError"})]_vars


DeleteSteps == {"delete_depositor", "delete_account", "commit", "rollback"}

\* the COMMIT of the delete request r takes effect in this step
Commits(r) == op[r] = "account_delete" /\ Succeeds(r, "commit", "putconn")

\* C1: the delete is atomic over both tables.  As long as an account row is
\* among the committed rows, so are all its depositor rows; and no step of a
\* delete request other than its successful COMMIT (in particular no failing
\* DELETE and no ROLLBACK) changes either table.
C1_DeleteAtomic ==
  /\ [](\A a \in DOMAIN account :
          RowsOf(depositor, a) = RowsOf(InitDepositor, a))
  /\ [][\A r \in Reqs :
          (pc[r] \in DeleteSteps /\ pc'[r] # pc[r] /\ ~Commits(r))
            => UNCHANGED db]_vars

\* the second DELETE of a transaction that deleted depositor rows has failed:
\* the transaction is about to roll back and both tables are whole
C1_Witness ==
  \E r \in Reqs :
    /\ pc[r] = "rollback"
    /\ tdep[r] # {}
    /\ err[r] = "DatabaseError"
    /\ acct[r] \in DOMAIN account
    /\ RowsOf(depositor, acct[r]) = tdep[r]

\* C2: a successful delete of account A removes the depositor rows of A and
\* the account row A and nothing else, whatever other requests are in
\* flight; no other step adds or removes a row of either table.
C2_DeleteExact ==
  [][IF \E r \in Reqs : Commits(r)
       THEN \A r \in Reqs : Commits(r) =>
              /\ depositor' = {d \in depositor : d[2] # acct[r]}
              /\ account' = Without(account, {acct[r]})
       ELSE /\ depositor' = depositor
            /\ DOMAIN account' = DOMAIN account]_vars

\* two delete requests on the two accounts ran side by side and both
\* committed
C2_Witness ==
  \E r, q \in Reqs :
    /\ op[r] = "account_delete" /\ acct[r] = 1
    /\ op[q] = "account_delete" /\ acct[q] = 2
    /\ pc[r] = "putconn" /\ err[r] = "none"
    /\ pc[q] = "putconn" /\ err[q] = "none"
    /\ DOMAIN account = {}
    /\ depositor = {}

NonNegative(d) == \/ d.kind = "finite" /\ (d.sign = 0 \/ d.coeff = 0)
                  \/ d.kind = "inf" /\ d.sign = 0

\* C5: every balance of the account table is >= 0, and a balance changes
\* only in the UPDATE of an update request for that account that passed the
\* checks.
C5_BalanceNonNegative ==
  /\ [](\A a \in DOMAIN account : NonNegative(account[a].balance))
  /\ [][\A a \in DOMAIN account \cap DOMAIN account' :
          account'[a].balance # account[a].balance
            => \E r \in Reqs :
                 /\ op[r] = "account_update_save"
                 /\ acct[r] = a
                 /\ Succeeds(r, "update", "putconn")
                 /\ ValidateBalance(bal[r]) = "none"]_vars

\* a negative balance was refused and another update changed a balance
C5_Witness ==
  /\ \E r \in Reqs : op[r] = "account_update_save" /\ resp[r] = "ValueError"
  /\ \E a \in DOMAIN account :
       account[a].balance = Dec("finite", 0, 5, 0)

\* C6: the UPDATE of an update request for account_number N with balance b
\* changes at most the balance of row N, which becomes b; the other rows,
\* every branch_name, the set of accounts and the depositor rows stay.  When
\* there is no row N the table stays and the statement raises nothing but a
\* failure of the database.  An update request whose statement raised
\* nothing is answered by the redirect.
C6_UpdateFrame ==
  [][\A r \in Reqs :
       /\ Moves(r, "update", "putconn") =>
            /\ depositor' = depositor
            /\ DOMAIN account' = DOMAIN account
            /\ \A a \in DOMAIN account :
                 /\ account'[a].branch_name = account[a].branch_name
                 /\ a # acct[r] => account'[a] = account[a]
            /\ err'[r] \in {"none", "DatabaseError"}
            /\ (err'[r] = "none" /\ acct[r] \in DOMAIN account)
                 => account'[acct[r]].balance = ToNumeric(Decimal(bal[r]))
       /\ (op[r] = "account_update_save" /\ Moves(r, "putconn", "done")
             /\ err[r] = "none")
            => resp'[r] = "redirect"]_vars

\* the UPDATE for an account_number without a row has run: no exception,
\* the tables as they were
C6_Witness ==
  \E r \in Reqs :
    /\ op[r] = "account_update_save"
    /\ pc[r] = "putconn"
    /\ err[r] = "none"
    /\ acct[r] \notin DOMAIN account
    /\ account = InitAccount
    /\ depositor = InitDepositor

\* C7: a delete request whose account is not among the committed rows when
\* its statements run deletes nothing: its statements find no row, its
\* COMMIT leaves both tables as they are (a second delete gives the state of
\* the first), no statement of a delete raises anything but a failure of the
\* database, and a delete that raised nothing is answered by the redirect.
C7_DeleteIdempotent ==
  [][\A r \in Reqs :
       /\ (Succeeds(r, "delete_depositor", "delete_account")
             /\ acct[r] \notin DOMAIN account) => tdep'[r] = {}
       /\ (Succeeds(r, "delete_account", "commit")
             /\ acct[r] \notin DOMAIN account) => tacc'[r] = {}
       /\ (Commits(r) /\ acct[r] \notin DOMAIN account) => UNCHANGED db
       /\ (pc[r] \in DeleteSteps /\ pc'[r] # pc[r])
            => err'[r] \in {"none", "DatabaseError"}
       /\ (op[r] = "account_delete" /\ Moves(r, "putconn", "done")
             /\ err[r] = "none")
            => resp'[r] = "redirect"]_vars

\* two delete requests for account 1 ran side by side; both committed
\* without exception
C7_Witness ==
  \E r, q \in Reqs :
    /\ r # q
    /\ op[r] = "account_delete" /\ acct[r] = 1
    /\ op[q] = "account_delete" /\ acct[q] = 1
    /\ pc[r] = "putconn" /\ err[r] = "none"
    /\ pc[q] = "putconn" /\ err[q] = "none"
    /\ 1 \notin DOMAIN account
    /\ RowsOf(depositor, 1) = {}


\* positions inside `with pool.connection()`
Holding == {"select", "update", "putconn"} \cup DeleteSteps

InFlight(r) == pc[r] \notin {"new", "done"}

\* C8: the connections out of the pool are exactly those of the requests
\* inside their pool.connection() block, whether or not a statement has
\* raised; so none is out when no request is in flight, and never more than
\* max_size are out.
C8_PoolReturn ==
  /\ checkedOut = others + Cardinality({r \in Reqs : pc[r] \in Holding})
  /\ checkedOut <= max_size
  /\ (others = 0 /\ \A r \in Reqs : ~InFlight(r)) => checkedOut = 0

\* a request ended by a DatabaseError, nothing is in flight and no
\* connection is out
C8_Witness ==
  /\ \E r \in Reqs : pc[r] = "done" /\ resp[r] = "DatabaseError"
  /\ \A r \in Reqs : ~InFlight(r)
  /\ others = 0
  /\ checkedOut = 0

\* C9: a request that waits for a connection while max_size are out
\* eventually stops waiting: it gets a connection or fails with PoolTimeout.
\* The request that fails so ends there (it does not wait again), with the
\* tables, the transactions and the pool as they were; a waiting request has
\* run no statement.
C9_NoIndefiniteWait ==
  /\ \A r \in Slots :
       (pc[r] = "getconn" /\ checkedOut = max_size) ~> (pc[r] # "getconn")
  /\ [][\A r \in Reqs : (pc[r] = "getconn" /\ pc'[r] # "getconn")
          => \/ /\ pc'[r] = "done"
                /\ resp'[r] = "PoolTimeout"
                /\ UNCHANGED <<db, txs, pool>>
             \/ /\ pc'[r] \in Holding
                /\ checkedOut' = checkedOut + 1]_vars
  /\ [](\A r \in Reqs : pc[r] = "getconn"
          => (tdep[r] = {} /\ tacc[r] = {} /\ err[r] = "none"))

\* a request has failed with PoolTimeout while max_size connections are out
C9_Witness ==
  \E r \in Reqs :
    /\ pc[r] = "done"
    /\ resp[r] = "PoolTimeout"
    /\ checkedOut = max_size

\* the request in slot r is admitted to the handler of endpoint e
Admitted(r, e) ==
  /\ pc[r] \in {"new", "done"}
  /\ pc'[r] = FirstStep(e)
  /\ op'[r] = e

\* the request in slot r is refused by the limiter
Refused(r) ==
  /\ pc[r] \in {"new", "done"}
  /\ pc'[r] = "done"
  /\ resp'[r] = "RateLimitExceeded"

\* what every version of the claim says of refused requests and of /ping
LimiterFrame ==
  /\ [][\A r \in Reqs : Refused(r) => UNCHANGED <<db, txs, pool>>]_vars
  /\ [][\A r \in Reqs : (pc[r] \in {"new", "done"} /\ pc'[r] # "done")
          => \E e \in Endpoints : Admitted(r, e)]_vars
  /\ [](\A r \in Reqs : op[r] = "ping" => resp[r] \in {"none", "pong"})
  /\ [][\A r \in Reqs : pc[r] = "ping"
          => (pc'[r] = "ping"
                \/ (resp'[r] = "pong" /\ UNCHANGED <<db, txs, pool>>))]_vars

====
